---------------------------- MODULE Spec2Model ----------------------------
(***************************************************************************)
(* The five gRPC client wrappers of DAI-grpc-client-python:                *)
(*   TargetDetectionClient, TargetTrackingClient, ImageHarmonyClient,      *)
(*   ImageRendererClient and ServiceCoordinatorClient.                     *)
(*                                                                         *)
(* The clients share no state, so a behaviour follows one client object    *)
(* (variable client) through any sequence of calls of its public methods.  *)
(* Every call is one action: it draws the arguments and the remote         *)
(* outcome (a reply with a status code, or a grpc.RpcError), performs the  *)
(* whole method body and records what the caller observes in  last.        *)
(***************************************************************************)
EXTENDS Integers, Sequences, FiniteSets, TLC

(***************************************************************************)
(* Bounds of the model.                                                    *)
(***************************************************************************)
\* longest list of results a remote reply carries
MaxResults == 2
\* longest label list of a mapping-table reply
MaxLabels == 2
\* largest connection id the image harmony service hands out
MaxConnId == 2

(***************************************************************************)
(* Values the arguments and the remote replies are drawn from.             *)
(***************************************************************************)
Clients == {"TargetDetectionClient", "TargetTrackingClient", "ImageHarmonyClient",
            "ImageRendererClient", "ServiceCoordinatorClient"}
Ips == {"10.0.0.1"}
Ports == {"5000"}
TaskIds == {1}
ImageIds == {7}
FailCodes == {400, 500}
Messages == {"not found", "busy"}
RpcDetails == {"UNAVAILABLE"}
LabelNames == {"car", "person"}
Coords == {<<0, 0, 4, 4>>, <<1, 2, 3, 5>>}
Confidences == {9}

\* Python's None
None == "None"

\* sequences over S of length at most n
RECURSIVE SeqUpTo(_, _)
SeqUpTo(S, n) ==
    IF n = 0 THEN {<<>>}
    ELSE LET shorter == SeqUpTo(S, n - 1)
         IN  shorter \cup {Append(s, x) : s \in {t \in shorter : Len(t) = n - 1}, x \in S}

(***************************************************************************)
(* Remote outcomes: a reply message with its response envelope (code,      *)
(* message) and body fields, or a transport error (grpc.RpcError).         *)
(***************************************************************************)
Reply(code, message, body) ==
    [kind |-> "reply", code |-> code, message |-> message, body |-> body]
RpcError(details) ==
    [kind |-> "rpcerror", code |-> 0, message |-> details, body |-> <<>>]
NoResponse == [kind |-> "none", code |-> 0, message |-> "", body |-> <<>>]

\* the outcomes of one remote operation whose code-200 body is drawn from Bodies
\* and whose failing replies carry the default (empty) body
Outcomes(Bodies, emptyBody) ==
    {Reply(200, "ok", b) : b \in Bodies}
    \cup {Reply(c, m, emptyBody) : c \in FailCodes, m \in Messages}
    \cup {RpcError(d) : d \in RpcDetails}

(***************************************************************************)
(* What a call leaves for its caller: a returned value or a raised error.  *)
(* An error message is the list of its lines ('\n'.join([...])), each line *)
(* the tuple of the pieces it is formatted from.                           *)
(***************************************************************************)
NoError == [kind |-> "None", lines |-> <<>>, cause |-> None, context |-> None]
Exception(lines) ==
    [kind |-> "Exception", lines |-> lines, cause |-> None, context |-> None]
\* "raise e" of the caught grpc.RpcError
ReRaised(resp) ==
    [kind |-> "RpcError", lines |-> <<<<resp.message>>>>, cause |-> None, context |-> None]

Returned(value) == [outcome |-> "return", value |-> value, error |-> NoError]
Raised(error) == [outcome |-> "raise", value |-> None, error |-> error]

\* the record of one call: the requests sent (in order), the reply to the last
\* one, and the result
Call(method, args, requests, resp, result) ==
    [method |-> method, args |-> args, requests |-> requests, resp |-> resp,
     outcome |-> result.outcome, value |-> result.value, error |-> result.error]

VARIABLES
    client,                     \* the class of the client object followed
    ip, port, task_id,          \* its constructor arguments
    constructed,                \* whether __init__ has completed
    det_result_mapping_table,   \* TargetDetectionClient.__result_mapping_table
    det_filter,                 \* TargetDetectionClient.filter.filter
    trk_filter,                 \* TargetTrackingClient.filter.filter
    ih_connection_id,           \* ImageHarmonyClient.__connection_id
    default_params,             \* the default list of params, per method that has one
    last                        \* the last call and what its caller observed

vars == <<client, ip, port, task_id, constructed, det_result_mapping_table,
          det_filter, trk_filter, ih_connection_id, default_params, last>>

config == <<client, ip, port, task_id>>
det_state == <<det_result_mapping_table, det_filter>>

NoCall == Call("none", <<>>, <<>>, NoResponse, Returned(None))

(***************************************************************************)
(* TargetDetectionClient                                                   *)
(***************************************************************************)
\* response.labels of a GetResultMappingTableResponse
DetLabelLists == SeqUpTo(LabelNames, MaxLabels)
\* label ids a caller or a detection result may name
DetLabelIds == {0, 1}
\* one element of response.results of a GetResultIndexByImageIdResponse
DetRemoteResults ==
    {[labelId |-> l, x1 |-> c[1], y1 |-> c[2], x2 |-> c[3], y2 |-> c[4], confidence |-> f] :
        l \in DetLabelIds, c \in Coords, f \in Confidences}
DetResultLists == SeqUpTo(DetRemoteResults, MaxResults)
DetMappingOutcomes == Outcomes(DetLabelLists, <<>>)
DetResultOutcomes == Outcomes(DetResultLists, <<>>)

\* range(n)
Range(n) == 0..(n - 1)

\* {i: label for i, label in enumerate(labels)}
Enumerate(labels) == [i \in Range(Len(labels)) |-> labels[i + 1]]

\* mutant: the filter starts from label id 1
M_Det_Filter_init_from_one(label_cnt) == 1..label_cnt

\* Filter.__init__(label_cnt)
Det_Filter_init(label_cnt) == Range(label_cnt)

\* mutant: the filter set is not consulted
M_Det_Filter_check_any(filter, label_id) == TRUE

\* Filter.check(label_id)
Det_Filter_check(filter, label_id) == label_id \in filter

\* the error raised on a reply whose code is not 200
Det_Error(what, resp) ==
    Exception(<< <<what>>, <<"   ip:   ", ip>>, <<"   port: ", port>>,
                 <<"Error:">>, <<resp.message>> >>)

\* mutant: the table is assigned before the status code is checked
M_Det_fetch_table_early(resp, table) ==
    IF resp.kind = "rpcerror"
    THEN [result |-> Raised(ReRaised(resp)), table |-> table]
    ELSE IF resp.code # 200
    THEN [result |-> Raised(Det_Error(
                       "TargetDetectionClient Error: Failed to get result mapping table", resp)),
          table |-> Enumerate(resp.body)]
    ELSE [result |-> Returned(Enumerate(resp.body)), table |-> Enumerate(resp.body)]

\* get_result_mapping_table, given the outcome of the remote call: the result
\* and the value of __result_mapping_table afterwards
Det_fetch_table(resp, table) ==
    IF resp.kind = "rpcerror"
    THEN [result |-> Raised(ReRaised(resp)), table |-> table]
    ELSE IF resp.code # 200
    THEN [result |-> Raised(Det_Error(
                       "TargetDetectionClient Error: Failed to get result mapping table", resp)),
          table |-> table]
    ELSE [result |-> Returned(Enumerate(resp.body)), table |-> Enumerate(resp.body)]

Det_MappingRequest == [op |-> "getResultMappingTable", taskId |-> task_id]

\* __init__: fetches the mapping table and builds the filter from its size
Det_init ==
    /\ client = "TargetDetectionClient"
    /\ ~constructed
    /\ \E resp \in DetMappingOutcomes :
        LET f == Det_fetch_table(resp, <<>>)
            ok == f.result.outcome = "return"
        IN  /\ constructed' = ok
            /\ det_result_mapping_table' = f.table
            /\ det_filter' = IF ok THEN Det_Filter_init(Cardinality(DOMAIN f.table)) ELSE {}
            /\ last' = Call("__init__", <<>>, <<Det_MappingRequest>>, resp,
                            IF ok THEN Returned(None) ELSE f.result)
    /\ UNCHANGED <<config, default_params, trk_filter, ih_connection_id>>

\* get_result_mapping_table, called by the user of the object
Det_get_result_mapping_table ==
    /\ client = "TargetDetectionClient"
    /\ constructed
    /\ \E resp \in DetMappingOutcomes :
        LET f == Det_fetch_table(resp, det_result_mapping_table)
        IN  /\ det_result_mapping_table' = f.table
            /\ last' = Call("get_result_mapping_table", <<>>, <<Det_MappingRequest>>,
                            resp, f.result)
    /\ UNCHANGED <<config, default_params, constructed, det_filter, trk_filter, ih_connection_id>>

\* convert_id_to_label
ConvertIdToLabel(table, label_id) ==
    IF label_id \in DOMAIN table
    THEN Returned(table[label_id])
    ELSE Raised(Exception(<< <<"TargetDetectionClient Error: Failed to find label for ID ",
                               ToString(label_id)>> >>))

\* query_label_id: the first key, in the dict's insertion order, whose value
\* is the label
RECURSIVE QueryFrom(_, _, _)
QueryFrom(table, label, k) ==
    IF k \notin DOMAIN table
    THEN Raised(Exception(<< <<"TargetDetectionClient Error: Failed to find ID for label ",
                               label>> >>))
    ELSE IF table[k] = label THEN Returned(k)
    ELSE QueryFrom(table, label, k + 1)

\* mutant: the last key whose value is the label
M_QueryLabelId_last(table, label) ==
    LET ks == {k \in DOMAIN table : table[k] = label}
    IN  IF ks = {} THEN QueryFrom(table, label, 0)
        ELSE Returned(CHOOSE k \in ks : \A j \in ks : j <= k)

QueryLabelId(table, label) == QueryFrom(table, label, 0)

Det_convert_id_to_label ==
    /\ client = "TargetDetectionClient"
    /\ constructed
    /\ \E label_id \in DetLabelIds :
        last' = Call("convert_id_to_label", <<label_id>>, <<>>, NoResponse,
                     ConvertIdToLabel(det_result_mapping_table, label_id))
    /\ UNCHANGED <<config, default_params, constructed, det_state, trk_filter, ih_connection_id>>

Det_query_label_id ==
    /\ client = "TargetDetectionClient"
    /\ constructed
    /\ \E label \in LabelNames :
        last' = Call("query_label_id", <<label>>, <<>>, NoResponse,
                     QueryLabelId(det_result_mapping_table, label))
    /\ UNCHANGED <<config, default_params, constructed, det_state, trk_filter, ih_connection_id>>

\* the list comprehension of get_result_by_image_id: a Result for every
\* remote result the filter accepts, in the order of response.results
RECURSIVE Det_FilterResults(_, _)
Det_FilterResults(results, filter) ==
    IF results = <<>> THEN <<>>
    ELSE LET r == Head(results)
             rest == Det_FilterResults(Tail(results), filter)
         IN  IF Det_Filter_check(filter, r.labelId)
             THEN <<[label_id |-> r.labelId, x1 |-> r.x1, y1 |-> r.y1,
                     x2 |-> r.x2, y2 |-> r.y2, confidence |-> r.confidence]>> \o rest
             ELSE rest

\* mutant: a failing reply is answered by an empty list
M_Det_GetResult_sentinel(resp, filter) ==
    IF resp.kind = "rpcerror" THEN Raised(ReRaised(resp))
    ELSE IF resp.code # 200 THEN Returned(<<>>)
    ELSE Returned(Det_FilterResults(resp.body, filter))

Det_GetResult(resp, filter) ==
    IF resp.kind = "rpcerror" THEN Raised(ReRaised(resp))
    ELSE IF resp.code # 200
    THEN Raised(Det_Error("TargetDetectionClient Error: Failed to get result", resp))
    ELSE Returned(Det_FilterResults(resp.body, filter))

Det_get_result_by_image_id ==
    /\ client = "TargetDetectionClient"
    /\ constructed
    /\ \E image_id \in ImageIds, resp \in DetResultOutcomes :
        last' = Call("get_result_by_image_id", <<image_id>>,
                     <<[op |-> "getResultIndexByImageId", taskId |-> task_id,
                        imageId |-> image_id, wait |-> TRUE]>>,
                     resp, Det_GetResult(resp, det_filter))
    /\ UNCHANGED <<config, default_params, constructed, det_state, trk_filter, ih_connection_id>>

\* filter.add / filter.remove / filter.clear / filter.check
Det_Filter_add ==
    /\ client = "TargetDetectionClient"
    /\ constructed
    /\ \E label_id \in DetLabelIds :
        /\ det_filter' = det_filter \cup {label_id}
        /\ last' = Call("filter.add", <<label_id>>, <<>>, NoResponse, Returned(None))
    /\ UNCHANGED <<config, default_params, constructed, det_result_mapping_table,
                   trk_filter, ih_connection_id>>

\* a remove without the membership test: set.remove raises KeyError for an
\* element that is not in the set
M_Det_Filter_remove_unguarded ==
    /\ client = "TargetDetectionClient"
    /\ constructed
    /\ \E label_id \in DetLabelIds :
        /\ det_filter' = det_filter \ {label_id}
        /\ last' = Call("filter.remove", <<label_id>>, <<>>, NoResponse,
                        IF label_id \in det_filter THEN Returned(None)
                        ELSE Raised([kind |-> "KeyError", lines |-> << <<"label_id">> >>,
                                     cause |-> None, context |-> None]))
    /\ UNCHANGED <<config, default_params, constructed, det_result_mapping_table,
                   trk_filter, ih_connection_id>>

Det_Filter_remove ==
    /\ client = "TargetDetectionClient"
    /\ constructed
    /\ \E label_id \in DetLabelIds :
        /\ det_filter' = IF label_id \in det_filter THEN det_filter \ {label_id}
                         ELSE det_filter
        /\ last' = Call("filter.remove", <<label_id>>, <<>>, NoResponse, Returned(None))
    /\ UNCHANGED <<config, default_params, constructed, det_result_mapping_table,
                   trk_filter, ih_connection_id>>

Det_Filter_clear ==
    /\ client = "TargetDetectionClient"
    /\ constructed
    /\ det_filter' = {}
    /\ last' = Call("filter.clear", <<>>, <<>>, NoResponse, Returned(None))
    /\ UNCHANGED <<config, default_params, constructed, det_result_mapping_table,
                   trk_filter, ih_connection_id>>

Det_Filter_check_call ==
    /\ client = "TargetDetectionClient"
    /\ constructed
    /\ \E label_id \in DetLabelIds :
        last' = Call("filter.check", <<label_id>>, <<>>, NoResponse,
                     Returned(Det_Filter_check(det_filter, label_id)))
    /\ UNCHANGED <<config, default_params, constructed, det_state, trk_filter, ih_connection_id>>

(***************************************************************************)
(* TargetTrackingClient                                                    *)
(***************************************************************************)
TrkIds == {1, 2}
\* the only_the_last argument, passed through to the request
OnlyTheLast == {TRUE}
\* a bounding box of a remote tracking result
RemoteBBox(c) == [x1 |-> c[1], y1 |-> c[2], x2 |-> c[3], y2 |-> c[4]]
TrkBBoxLists ==
    {<<RemoteBBox(<<0, 0, 4, 4>>)>>,
     <<RemoteBBox(<<1, 2, 3, 5>>), RemoteBBox(<<0, 0, 4, 4>>)>>}
\* one element of response.results of a GetResultByImageIdResponse
TrkRemoteResults ==
    {[id |-> i, label |-> l, bboxs |-> b] :
        i \in TrkIds, l \in LabelNames, b \in TrkBBoxLists}
TrkResultLists == SeqUpTo(TrkRemoteResults, MaxResults)
TrkResultOutcomes == Outcomes(TrkResultLists, <<>>)

\* Filter.__init__()
Trk_Filter_init == {}

\* mutant: the test is inverted
M_Trk_Filter_check_inverted(filter, label) == label \notin filter

\* Filter.check(label)
Trk_Filter_check(filter, label) == label \in filter

\* d[k] = v on a dict
DictSet(d, k, v) == [x \in (DOMAIN d) \cup {k} |-> IF x = k THEN v ELSE d[x]]

\* the inner loop: a BBox appended for every bbox of the result, in order
RECURSIVE Trk_BBoxes(_)
Trk_BBoxes(bboxs) ==
    IF bboxs = <<>> THEN <<>>
    ELSE LET b == Head(bboxs)
         IN  <<[x1 |-> b.x1, y1 |-> b.y1, x2 |-> b.x2, y2 |-> b.y2]>>
                \o Trk_BBoxes(Tail(bboxs))

\* the outer loop: results[result.id] is (re)started and filled for every
\* result the filter accepts
RECURSIVE Trk_Collect(_, _, _)
Trk_Collect(results, filter, acc) ==
    IF results = <<>> THEN acc
    ELSE LET r == Head(results)
         IN  IF ~Trk_Filter_check(filter, r.label)
             THEN Trk_Collect(Tail(results), filter, acc)
             ELSE Trk_Collect(Tail(results), filter, DictSet(acc, r.id, Trk_BBoxes(r.bboxs)))

Trk_Error(what, resp) ==
    Exception(<< <<what>>, <<"   ip:   ", ip>>, <<"   port: ", port>>,
                 <<"Error:">>, <<resp.message>> >>)

Trk_GetResult(resp, filter) ==
    IF resp.kind = "rpcerror" THEN Raised(ReRaised(resp))
    ELSE IF resp.code # 200
    THEN Raised(Trk_Error("TargetTrackingClient Error: Failed to get result", resp))
    ELSE Returned(Trk_Collect(resp.body, filter, <<>>))

Trk_get_result_by_image_id ==
    /\ client = "TargetTrackingClient"
    /\ \E image_id \in ImageIds, only_the_last \in OnlyTheLast, resp \in TrkResultOutcomes :
        last' = Call("get_result_by_image_id", <<image_id, only_the_last>>,
                     <<[op |-> "getResultByImageId", taskId |-> task_id,
                        imageId |-> image_id, wait |-> TRUE,
                        onlyTheLatest |-> only_the_last]>>,
                     resp, Trk_GetResult(resp, trk_filter))
    /\ UNCHANGED <<config, default_params, constructed, det_state, trk_filter, ih_connection_id>>

Trk_Filter_add ==
    /\ client = "TargetTrackingClient"
    /\ \E label \in LabelNames :
        /\ trk_filter' = trk_filter \cup {label}
        /\ last' = Call("filter.add", <<label>>, <<>>, NoResponse, Returned(None))
    /\ UNCHANGED <<config, default_params, constructed, det_state, ih_connection_id>>

Trk_Filter_remove ==
    /\ client = "TargetTrackingClient"
    /\ \E label \in LabelNames :
        /\ trk_filter' = IF label \in trk_filter THEN trk_filter \ {label} ELSE trk_filter
        /\ last' = Call("filter.remove", <<label>>, <<>>, NoResponse, Returned(None))
    /\ UNCHANGED <<config, default_params, constructed, det_state, ih_connection_id>>

Trk_Filter_clear ==
    /\ client = "TargetTrackingClient"
    /\ trk_filter' = {}
    /\ last' = Call("filter.clear", <<>>, <<>>, NoResponse, Returned(None))
    /\ UNCHANGED <<config, default_params, constructed, det_state, ih_connection_id>>

Trk_Filter_check_call ==
    /\ client = "TargetTrackingClient"
    /\ \E label \in LabelNames :
        last' = Call("filter.check", <<label>>, <<>>, NoResponse,
                     Returned(Trk_Filter_check(trk_filter, label)))
    /\ UNCHANGED <<config, default_params, constructed, det_state, trk_filter, ih_connection_id>>

(***************************************************************************)
(* Image buffers and cv2.imdecode.  A buffer is a byte string; imdecode    *)
(* yields an image for a buffer that starts with the JPEG marker FF D8 and *)
(* None for any other non-empty buffer.  For an empty buffer it returns    *)
(* None or raises cv2.error, depending on the OpenCV build.                *)
(***************************************************************************)
EmptyBuffer == <<>>
Buffers == {EmptyBuffer, <<255, 216, 42>>, <<1, 2>>}
EmptyArray == <<>>
Sizes == {<<640, 480>>}
Formats == {".png"}

\* the argument pair (format, params): left out, or given
Omitted == [given |-> FALSE, format |-> "", params |-> <<>>]
ImageOptions == {Omitted} \cup {[given |-> TRUE, format |-> f, params |-> <<16, 3>>] : f \in Formats}

\* cv2.IMWRITE_JPEG_QUALITY
IMWRITE_JPEG_QUALITY == 1
DefaultFormat == ".jpg"
DefaultParams == <<IMWRITE_JPEG_QUALITY, 80>>
\* the methods whose params parameter has a default: the list is built once,
\* when the method is defined, and every call that omits params is bound to it
DefaultOwners == {"get_image_buffer_by_image_id", "get_image_by_image_id"}

FormatOf(opt) == IF opt.given THEN opt.format ELSE DefaultFormat
\* the list the params parameter of the method is bound to
ParamsOf(opt, method) == IF opt.given THEN opt.params ELSE default_params[method]

\* mutant: the method appends to the list it was given
M_ParamsAfterCall_append(params) == Append(params, 0)

\* the list bound to params when the call is over: it is only read, copied into
\* the request message (params=params) or handed on to
\* get_image_buffer_by_image_id
ParamsAfterCall(params) == params

\* the default lists after a call of the method
DefaultsAfterCall(opt, method) ==
    IF opt.given THEN default_params
    ELSE [default_params EXCEPT ![method] = ParamsAfterCall(@)]

ImDecode(buffer) ==
    IF buffer = EmptyBuffer
    THEN {[kind |-> "none", image |-> EmptyArray], [kind |-> "cv2.error", image |-> EmptyArray]}
    ELSE IF Len(buffer) >= 2 /\ buffer[1] = 255 /\ buffer[2] = 216
    THEN {[kind |-> "image", image |-> <<SubSeq(buffer, 3, Len(buffer))>>]}
    ELSE {[kind |-> "none", image |-> EmptyArray]}

\* imageResponse of a GetImageByImageIdResponse
ImageBodies ==
    {[imageId |-> i, buffer |-> b, width |-> s[1], height |-> s[2]] :
        i \in ImageIds, b \in Buffers, s \in Sizes}
DefaultImageBody == [imageId |-> 0, buffer |-> EmptyBuffer, width |-> 0, height |-> 0]
ImageOutcomes == Outcomes(ImageBodies, DefaultImageBody)

(***************************************************************************)
(* ImageHarmonyClient                                                      *)
(***************************************************************************)
ConnectionIds == 1..MaxConnId
LoaderArgsHashes == {11}
ConnectOutcomes == Outcomes({[connectionId |-> c] : c \in ConnectionIds}, [connectionId |-> 0])
DisconnectOutcomes == Outcomes({<<>>}, <<>>)

IH_Error(head, resp) ==
    Exception(head \o << <<"Image Hramony gRPC Info:">>, <<"   ip:   ", ip>>,
                         <<"   port: ", port>>, <<"Error:">>, <<resp.message>> >>)

\* "raise(f'gRPC error in ...: \n{e}') from e": the operand of raise is a str,
\* so the statement raises TypeError inside the except block
IH_RaiseStr(text, resp) ==
    [kind |-> "TypeError", lines |-> << <<"exceptions must derive from BaseException">> >>,
     cause |-> None, context |-> "RpcError"]

IH_Connect(loader_args_hash, resp, connection_id) ==
    IF resp.kind = "rpcerror"
    THEN [result |-> Raised(IH_RaiseStr("gRPC error in connect_image_loader: ", resp)),
          connection_id |-> connection_id]
    ELSE IF resp.code # 200
    THEN [result |-> Raised(IH_Error(<< <<"Failed to connect image loader">>,
                                        <<"Loader args hash: ", ToString(loader_args_hash)>> >>,
                                     resp)),
          connection_id |-> connection_id]
    ELSE [result |-> Returned(None), connection_id |-> resp.body.connectionId]

IH_connect_image_loader ==
    /\ client = "ImageHarmonyClient"
    /\ \E loader_args_hash \in LoaderArgsHashes, resp \in ConnectOutcomes :
        LET c == IH_Connect(loader_args_hash, resp, ih_connection_id)
        IN  /\ ih_connection_id' = c.connection_id
            /\ last' = Call("connect_image_loader", <<loader_args_hash>>,
                            <<[op |-> "connectImageLoader",
                               loaderArgsHash |-> loader_args_hash]>>,
                            resp, c.result)
    /\ UNCHANGED <<config, default_params, constructed, det_state, trk_filter>>

\* mutant: the connection id is reset before the reply is looked at
M_IH_Disconnect_resets_early(resp, connection_id) ==
    IF resp.kind = "rpcerror"
    THEN [result |-> Raised(IH_RaiseStr("gRPC error in disconnect_image_loader: ", resp)),
          connection_id |-> 0]
    ELSE IF resp.code # 200
    THEN [result |-> Raised(IH_Error(<< <<"Failed to disconnect image loader">> >>, resp)),
          connection_id |-> 0]
    ELSE [result |-> Returned(<<TRUE, "Disconnected from image loader">>),
          connection_id |-> 0]

\* mutant: a successful disconnect forgets to reset the connection id
M_IH_Disconnect_keeps_id(resp, connection_id) ==
    IF resp.kind = "rpcerror"
    THEN [result |-> Raised(IH_RaiseStr("gRPC error in disconnect_image_loader: ", resp)),
          connection_id |-> connection_id]
    ELSE IF resp.code # 200
    THEN [result |-> Raised(IH_Error(<< <<"Failed to disconnect image loader">> >>, resp)),
          connection_id |-> connection_id]
    ELSE [result |-> Returned(<<TRUE, "Disconnected from image loader">>),
          connection_id |-> connection_id]

IH_Disconnect(resp, connection_id) ==
    IF resp.kind = "rpcerror"
    THEN [result |-> Raised(IH_RaiseStr("gRPC error in disconnect_image_loader: ", resp)),
          connection_id |-> connection_id]
    ELSE IF resp.code # 200
    THEN [result |-> Raised(IH_Error(<< <<"Failed to disconnect image loader">> >>, resp)),
          connection_id |-> connection_id]
    ELSE [result |-> Returned(<<TRUE, "Disconnected from image loader">>),
          connection_id |-> 0]

IH_disconnect_image_loader ==
    /\ client = "ImageHarmonyClient"
    /\ IF 0 = ih_connection_id
       THEN /\ last' = Call("disconnect_image_loader", <<>>, <<>>, NoResponse, Returned(None))
            /\ UNCHANGED ih_connection_id
       ELSE \E resp \in DisconnectOutcomes :
            LET d == IH_Disconnect(resp, ih_connection_id)
            IN  /\ ih_connection_id' = d.connection_id
                /\ last' = Call("disconnect_image_loader", <<>>,
                                <<[op |-> "disconnectImageLoader",
                                   connectionId |-> ih_connection_id]>>,
                                resp, d.result)
    /\ UNCHANGED <<config, default_params, constructed, det_state, trk_filter>>

IH_BufferRequest(image_id, size, opt, method) ==
    [op |-> "getImageByImageId", connectionId |-> ih_connection_id, imageId |-> image_id,
     noImageBuffer |-> FALSE, format |-> FormatOf(opt), params |-> ParamsOf(opt, method),
     expectedW |-> size[1], expectedH |-> size[2]]

IH_GetImageBuffer(resp) ==
    IF resp.kind = "rpcerror"
    THEN Raised(IH_RaiseStr("gRPC error in get_image_buffer_by_image_id: ", resp))
    ELSE IF resp.code # 200
    THEN Raised(IH_Error(<< <<"Failed to retrieve image buffer">> >>, resp))
    ELSE Returned(<<resp.body.imageId, resp.body.buffer>>)

IH_get_image_buffer_by_image_id ==
    /\ client = "ImageHarmonyClient"
    /\ \E image_id \in ImageIds, size \in Sizes, opt \in ImageOptions, resp \in ImageOutcomes :
        /\ last' = Call("get_image_buffer_by_image_id", <<image_id, size, opt>>,
                        <<IH_BufferRequest(image_id, size, opt,
                                           "get_image_buffer_by_image_id")>>,
                        resp, IH_GetImageBuffer(resp))
        /\ default_params' = DefaultsAfterCall(opt, "get_image_buffer_by_image_id")
    /\ UNCHANGED <<config, constructed, det_state, trk_filter, ih_connection_id>>

\* get_image_by_image_id after get_image_buffer_by_image_id has returned:
\* decode, and raise when the image is None
IH_Decode(got, dec) ==
    IF got.outcome = "raise" THEN got
    ELSE IF dec.kind = "cv2.error"
    THEN Raised([kind |-> "cv2.error", lines |-> << <<"imdecode">> >>,
                 cause |-> None, context |-> None])
    ELSE IF dec.kind = "none"
    THEN Raised(Exception(<< <<"Failed to decode image for image ID: ", ToString(got.value[1])>>,
                             <<"Image Hramony gRPC Info:">>, <<"   ip:   ", ip>>,
                             <<"   port: ", port>> >>))
    ELSE Returned(<<got.value[1], dec.image>>)

IH_get_image_by_image_id ==
    /\ client = "ImageHarmonyClient"
    /\ \E image_id \in ImageIds, size \in Sizes, opt \in ImageOptions, resp \in ImageOutcomes :
        LET got == IH_GetImageBuffer(resp)
        IN  /\ \E dec \in (IF got.outcome = "return" THEN ImDecode(got.value[2])
                           ELSE {[kind |-> "none", image |-> EmptyArray]}) :
                    last' = Call("get_image_by_image_id", <<image_id, size, opt>>,
                                 <<IH_BufferRequest(image_id, size, opt,
                                                    "get_image_by_image_id")>>,
                                 resp, IH_Decode(got, dec))
            /\ default_params' = DefaultsAfterCall(opt, "get_image_by_image_id")
    /\ UNCHANGED <<config, constructed, det_state, trk_filter, ih_connection_id>>

IH_GetImageSize(resp) ==
    IF resp.kind = "rpcerror"
    THEN Raised(IH_RaiseStr("gRPC error in get_image_size_by_image_id: ", resp))
    ELSE IF resp.code # 200
    THEN Raised(IH_Error(<< <<"Failed to retrieve image size">> >>, resp))
    ELSE Returned(<<resp.body.width, resp.body.height>>)

IH_get_image_size_by_image_id ==
    /\ client = "ImageHarmonyClient"
    /\ \E image_id \in ImageIds, resp \in ImageOutcomes :
        last' = Call("get_image_size_by_image_id", <<image_id>>,
                     <<[op |-> "getImageByImageId", connectionId |-> ih_connection_id,
                        imageId |-> image_id, noImageBuffer |-> TRUE]>>,
                     resp, IH_GetImageSize(resp))
    /\ UNCHANGED <<config, default_params, constructed, det_state, trk_filter, ih_connection_id>>

(***************************************************************************)
(* ImageRendererClient                                                     *)
(***************************************************************************)
\* the fields of image_renderer_pb2.GetImageByImageIdRequest, as
\* get_image_buffer_by_image_id names them
IR_RequestFields == {"taskId", "imageRequest"}
\* the keyword arguments get_image_size_by_image_id passes to the same message
IR_SizeRequestKeywords == {"task_id", "imageRequest"}
IR_BufferRequestKeywords == {"taskId", "imageRequest"}

\* a protobuf message constructor raises ValueError for a keyword that is no
\* field of the message
ProtoAccepts(fields, keywords) == keywords \subseteq fields

\* get_image_buffer_by_image_id: every failure is answered by (0, b'')
IR_GetImageBuffer(built, resp) ==
    IF ~built THEN Returned(<<0, EmptyBuffer>>)
    ELSE IF resp.kind = "rpcerror" THEN Returned(<<0, EmptyBuffer>>)
    ELSE IF resp.code # 200 THEN Returned(<<0, EmptyBuffer>>)
    ELSE Returned(<<resp.body.imageId, resp.body.buffer>>)

IR_BufferRequest(task, image_id, size, opt, method) ==
    [op |-> "getImageByImageId", taskId |-> task, imageId |-> image_id,
     noImageBuffer |-> FALSE, format |-> FormatOf(opt), params |-> ParamsOf(opt, method),
     expectedW |-> size[1], expectedH |-> size[2]]

IR_get_image_buffer_by_image_id ==
    /\ client = "ImageRendererClient"
    /\ \E task \in TaskIds, image_id \in ImageIds, size \in Sizes, opt \in ImageOptions :
        LET built == ProtoAccepts(IR_RequestFields, IR_BufferRequestKeywords)
        IN  /\ IF built
               THEN \E resp \in ImageOutcomes :
                       last' = Call("get_image_buffer_by_image_id",
                                    <<task, image_id, size, opt>>,
                                    <<IR_BufferRequest(task, image_id, size, opt,
                                                       "get_image_buffer_by_image_id")>>,
                                    resp, IR_GetImageBuffer(built, resp))
               ELSE last' = Call("get_image_buffer_by_image_id",
                                 <<task, image_id, size, opt>>,
                                 <<>>, NoResponse, IR_GetImageBuffer(built, NoResponse))
            /\ default_params' = DefaultsAfterCall(opt, "get_image_buffer_by_image_id")
    /\ UNCHANGED <<config, constructed, det_state, trk_filter, ih_connection_id>>

\* get_image_by_image_id after get_image_buffer_by_image_id has returned
IR_Decode(got, dec) ==
    IF got.value[2] = EmptyBuffer THEN Returned(<<0, EmptyArray>>)
    ELSE IF dec.kind = "cv2.error" THEN Returned(<<0, EmptyArray>>)
    ELSE IF dec.kind = "none" THEN Returned(<<got.value[1], EmptyArray>>)
    ELSE Returned(<<got.value[1], dec.image>>)

IR_get_image_by_image_id ==
    /\ client = "ImageRendererClient"
    /\ \E task \in TaskIds, image_id \in ImageIds, size \in Sizes, opt \in ImageOptions :
        LET built == ProtoAccepts(IR_RequestFields, IR_BufferRequestKeywords)
        IN  /\ IF built
               THEN \E resp \in ImageOutcomes :
                       LET got == IR_GetImageBuffer(built, resp)
                       IN  \E dec \in ImDecode(got.value[2]) :
                               last' = Call("get_image_by_image_id",
                                            <<task, image_id, size, opt>>,
                                            <<IR_BufferRequest(task, image_id, size, opt,
                                                               "get_image_by_image_id")>>,
                                            resp, IR_Decode(got, dec))
               ELSE last' = Call("get_image_by_image_id", <<task, image_id, size, opt>>,
                                 <<>>, NoResponse,
                                 IR_Decode(IR_GetImageBuffer(built, NoResponse),
                                           [kind |-> "none", image |-> EmptyArray]))
            /\ default_params' = DefaultsAfterCall(opt, "get_image_by_image_id")
    /\ UNCHANGED <<config, constructed, det_state, trk_filter, ih_connection_id>>

\* get_image_size_by_image_id: every failure is answered by (0, 0)
IR_GetImageSize(built, resp) ==
    IF ~built THEN Returned(<<0, 0>>)
    ELSE IF resp.kind = "rpcerror" THEN Returned(<<0, 0>>)
    ELSE IF resp.code # 200 THEN Returned(<<0, 0>>)
    ELSE Returned(<<resp.body.width, resp.body.height>>)

IR_get_image_size_by_image_id ==
    /\ client = "ImageRendererClient"
    /\ \E task \in TaskIds, image_id \in ImageIds :
        LET built == ProtoAccepts(IR_RequestFields, IR_SizeRequestKeywords)
        IN  IF built
            THEN \E resp \in ImageOutcomes :
                    last' = Call("get_image_size_by_image_id", <<task, image_id>>,
                                 <<[op |-> "getImageByImageId", taskId |-> task,
                                    imageId |-> image_id, noImageBuffer |-> TRUE]>>,
                                 resp, IR_GetImageSize(built, resp))
            ELSE last' = Call("get_image_size_by_image_id", <<task, image_id>>,
                              <<>>, NoResponse, IR_GetImageSize(built, NoResponse))
    /\ UNCHANGED <<config, default_params, constructed, det_state, trk_filter, ih_connection_id>>

(***************************************************************************)
(* ServiceCoordinatorClient                                                *)
(***************************************************************************)
\* a Dict[str, str] is the list of its items in insertion order; the args
\* argument is a dict or something else
ScItems == {[key |-> k, value |-> v] : k \in {"in", "out"}, v \in {"a", "b"}}
ScArgs ==
    {[isdict |-> TRUE, items |-> <<>>],
     [isdict |-> TRUE, items |-> <<[key |-> "in", value |-> "a"]>>],
     [isdict |-> FALSE, items |-> <<>>]}
\* response.args of an InformCurrentServiceInfoResponse
ScReplyArgs == SeqUpTo(ScItems, MaxResults)
ScPlainOutcomes == Outcomes({<<>>}, <<>>)
ScArgsOutcomes == Outcomes(ScReplyArgs, <<>>)
PreServices == {<<"image harmony", "10.0.0.9", "5001">>}

\* the loop "for key, value in args.items(): request.args.add()"
SC_RequestArgs(args) == IF args.isdict THEN args.items ELSE <<>>

\* the loop "args_output[arg.key] = arg.value"
RECURSIVE SC_ArgsOutput(_, _)
SC_ArgsOutput(items, acc) ==
    IF items = <<>> THEN acc
    ELSE SC_ArgsOutput(Tail(items), DictSet(acc, Head(items).key, Head(items).value))

\* mutant: the status code is not checked
M_SC_Bool_unchecked(resp) ==
    IF resp.kind = "rpcerror" THEN Returned(FALSE) ELSE Returned(TRUE)

\* inform_previous_service_info, start and stop
SC_Bool(resp) ==
    IF resp.kind = "rpcerror" THEN Returned(FALSE)
    ELSE IF resp.code # 200 THEN Returned(FALSE)
    ELSE Returned(TRUE)

SC_InformCurrent(resp) ==
    IF resp.kind = "rpcerror" THEN Returned(<<FALSE, <<>>>>)
    ELSE IF resp.code # 200 THEN Returned(<<FALSE, <<>>>>)
    ELSE Returned(<<TRUE, SC_ArgsOutput(resp.body, <<>>)>>)

SC_inform_previous_service_info ==
    /\ client = "ServiceCoordinatorClient"
    /\ \E task \in TaskIds, pre \in PreServices, args \in ScArgs, resp \in ScPlainOutcomes :
        last' = Call("inform_previous_service_info", <<task, pre, args>>,
                     <<[op |-> "informPreviousServiceInfo", taskId |-> task,
                        preServiceName |-> pre[1], preServiceIp |-> pre[2],
                        preServicePort |-> pre[3], args |-> SC_RequestArgs(args)]>>,
                     resp, SC_Bool(resp))
    /\ UNCHANGED <<config, default_params, constructed, det_state, trk_filter, ih_connection_id>>

SC_inform_current_service_info ==
    /\ client = "ServiceCoordinatorClient"
    /\ \E task \in TaskIds, args \in ScArgs, resp \in ScArgsOutcomes :
        last' = Call("inform_current_service_info", <<task, args>>,
                     <<[op |-> "informCurrentServiceInfo", taskId |-> task,
                        args |-> SC_RequestArgs(args)]>>,
                     resp, SC_InformCurrent(resp))
    /\ UNCHANGED <<config, default_params, constructed, det_state, trk_filter, ih_connection_id>>

SC_start ==
    /\ client = "ServiceCoordinatorClient"
    /\ \E task \in TaskIds, resp \in ScPlainOutcomes :
        last' = Call("start", <<task>>, <<[op |-> "start", taskId |-> task]>>,
                     resp, SC_Bool(resp))
    /\ UNCHANGED <<config, default_params, constructed, det_state, trk_filter, ih_connection_id>>

SC_stop ==
    /\ client = "ServiceCoordinatorClient"
    /\ \E task \in TaskIds, resp \in ScPlainOutcomes :
        last' = Call("stop", <<task>>, <<[op |-> "stop", taskId |-> task]>>,
                     resp, SC_Bool(resp))
    /\ UNCHANGED <<config, default_params, constructed, det_state, trk_filter, ih_connection_id>>

(***************************************************************************)
(* Initial state: the constructor arguments are chosen; the clients whose  *)
(* __init__ makes no remote call are constructed, the detection client     *)
(* still has its __init__ (a remote call) ahead.                           *)
(***************************************************************************)
Init ==
    /\ client \in Clients
    /\ ip \in Ips
    /\ port \in Ports
    /\ task_id \in TaskIds
    /\ constructed = (client # "TargetDetectionClient")
    /\ det_result_mapping_table = <<>>
    /\ det_filter = {}
    /\ trk_filter = Trk_Filter_init
    /\ ih_connection_id = 0
    /\ default_params = [m \in DefaultOwners |-> DefaultParams]
    /\ last = NoCall

Next ==
    \/ Det_init
    \/ Det_get_result_mapping_table
    \/ Det_convert_id_to_label
    \/ Det_query_label_id
    \/ Det_get_result_by_image_id
    \/ Det_Filter_add
    \/ Det_Filter_remove
    \/ Det_Filter_clear
    \/ Det_Filter_check_call
    \/ Trk_get_result_by_image_id
    \/ Trk_Filter_add
    \/ Trk_Filter_remove
    \/ Trk_Filter_clear
    \/ Trk_Filter_check_call
    \/ IH_connect_image_loader
    \/ IH_disconnect_image_loader
    \/ IH_get_image_buffer_by_image_id
    \/ IH_get_image_by_image_id
    \/ IH_get_image_size_by_image_id
    \/ IR_get_image_buffer_by_image_id
    \/ IR_get_image_by_image_id
    \/ IR_get_image_size_by_image_id
    \/ SC_inform_previous_service_info
    \/ SC_inform_current_service_info
    \/ SC_start
    \/ SC_stop

Spec == Init /\ [][Next]_vars

(***************************************************************************)
(* Properties                                                              *)
(***************************************************************************)
Det == "TargetDetectionClient"
Trk == "TargetTrackingClient"
IH == "ImageHarmonyClient"
IR == "ImageRendererClient"
SC == "ServiceCoordinatorClient"

\* the last call received a reply with code 200 / with another code
ReplyOk(c) == c.resp.kind = "reply" /\ c.resp.code = 200
ReplyNotOk(c) == c.resp.kind = "reply" /\ c.resp.code # 200

\* the error message of the call has this line
HasLine(c, line) == \E i \in 1..Len(c.error.lines) : c.error.lines[i] = line

\* the remote operations the call invoked
Sends(c, op) == \E i \in 1..Len(c.requests) : c.requests[i].op = op

DetAccepted(r) == r.labelId \in det_filter

\* C1: on a code-200 reply, TargetDetectionClient.get_result_by_image_id returns
\* exactly the remote results whose labelId is in the current filter set, in the
\* order received, with label id, coordinates and confidence copied unchanged.
C1_DetectionResultsFiltered ==
    (client = Det /\ last.method = "get_result_by_image_id" /\ ReplyOk(last)) =>
        /\ last.outcome = "return"
        /\ LET accepted == SelectSeq(last.resp.body, DetAccepted)
           IN  /\ Len(last.value) = Len(accepted)
               /\ \A i \in 1..Len(accepted) :
                    /\ last.value[i].label_id = accepted[i].labelId
                    /\ last.value[i].x1 = accepted[i].x1
                    /\ last.value[i].y1 = accepted[i].y1
                    /\ last.value[i].x2 = accepted[i].x2
                    /\ last.value[i].y2 = accepted[i].y2
                    /\ last.value[i].confidence = accepted[i].confidence

\* a reply with an accepted result after a rejected one, answered by one result
C1_Witness ==
    /\ client = Det /\ last.method = "get_result_by_image_id" /\ ReplyOk(last)
    /\ Len(last.resp.body) = 2
    /\ ~DetAccepted(last.resp.body[1])
    /\ DetAccepted(last.resp.body[2])
    /\ Len(last.value) = 1

\* C2: on a code-200 reply, TargetTrackingClient.get_result_by_image_id returns a
\* mapping whose keys are exactly the ids of the remote results whose label is in
\* the filter set, each key mapped to the bounding boxes, in the order received,
\* of such a result.
C2_TrackingResultsFiltered ==
    (client = Trk /\ last.method = "get_result_by_image_id" /\ ReplyOk(last)) =>
        /\ last.outcome = "return"
        /\ LET results == last.resp.body
               accepted == {i \in 1..Len(results) : results[i].label \in trk_filter}
           IN  /\ DOMAIN last.value = {results[i].id : i \in accepted}
               /\ \A k \in DOMAIN last.value :
                    \E i \in accepted : results[i].id = k /\ last.value[k] = results[i].bboxs

\* one result accepted and one rejected, under different ids
C2_Witness ==
    /\ client = Trk /\ last.method = "get_result_by_image_id" /\ ReplyOk(last)
    /\ Len(last.resp.body) = 2
    /\ last.resp.body[1].label \in trk_filter
    /\ last.resp.body[2].label \notin trk_filter
    /\ last.resp.body[1].id # last.resp.body[2].id
    /\ Len(last.resp.body[1].bboxs) = 2
    /\ DOMAIN last.value = {last.resp.body[1].id}

\* C3: right after construction, before any filter.add, the tracking filter
\* accepts every label, so the first get_result_by_image_id that receives a
\* code-200 reply returns every result of the reply.
C3_FreshTrackingFilterAcceptsAll ==
    [][(client = Trk /\ last = NoCall /\ last'.method = "get_result_by_image_id"
            /\ ReplyOk(last'))
        => /\ \A l \in LabelNames : Trk_Filter_check(trk_filter, l)
           /\ DOMAIN last'.value =
                {last'.resp.body[i].id : i \in 1..Len(last'.resp.body)}]_vars

\* C4: right after a successful construction of a TargetDetectionClient the
\* filter set is {0, ..., n-1}, n the number of labels fetched: check(i) is true
\* for every id of the mapping table and false for every other integer.
C4_InitialDetectionFilter ==
    (client = Det /\ last.method = "__init__" /\ last.outcome = "return") =>
        /\ constructed
        /\ det_filter = 0..(Len(last.resp.body) - 1)
        /\ \A i \in DetLabelIds \cup {-1, MaxLabels, MaxLabels + 1} :
            Det_Filter_check(det_filter, i) <=> i \in DOMAIN det_result_mapping_table

\* a construction that fetched a table of two labels
C4_Witness ==
    /\ client = Det /\ last.method = "__init__" /\ last.outcome = "return"
    /\ Len(last.resp.body) = 2
    /\ det_filter = {0, 1}

\* C5 (as claimed): after construction no operation of the client sends
\* getResultMappingTable again and the cached table never changes.
C5_FetchedOnce ==
    [][(client = Det /\ constructed)
        => /\ det_result_mapping_table' = det_result_mapping_table
           /\ ~Sends(last', "getResultMappingTable")]_vars

\* C5 (amended): __init__ sends getResultMappingTable exactly once; afterwards
\* only a call of the public get_result_mapping_table sends it (once per call),
\* and the cached table changes only there: to the enumeration of the reply's
\* labels when the code is 200, and not at all otherwise.
C5_FetchedOnlyByGetter ==
    [][client = Det =>
        /\ (~constructed =>
                /\ last'.method = "__init__"
                /\ Len(last'.requests) = 1
                /\ Sends(last', "getResultMappingTable"))
        /\ (constructed /\ last'.method # "get_result_mapping_table" =>
                /\ det_result_mapping_table' = det_result_mapping_table
                /\ ~Sends(last', "getResultMappingTable"))
        /\ (constructed /\ last'.method = "get_result_mapping_table" =>
                /\ Len(last'.requests) = 1
                /\ Sends(last', "getResultMappingTable")
                /\ det_result_mapping_table' =
                      IF ReplyOk(last')
                      THEN [i \in 0..(Len(last'.resp.body) - 1) |-> last'.resp.body[i + 1]]
                      ELSE det_result_mapping_table)]_vars

\* a second fetch by the public method has replaced the table
C5_Witness ==
    /\ client = Det /\ constructed
    /\ last.method = "get_result_mapping_table" /\ ReplyOk(last)
    /\ Len(last.resp.body) = 2
    /\ det_result_mapping_table[1] = last.resp.body[2]

\* C6 (as claimed): query_label_id(convert_id_to_label(i)) = i for every id i of
\* the cached table, also when a label appears at more than one index.
C6_RoundTrip ==
    (client = Det /\ constructed) =>
        \A i \in DOMAIN det_result_mapping_table :
            LET l == ConvertIdToLabel(det_result_mapping_table, i)
            IN  /\ l.outcome = "return"
                /\ QueryLabelId(det_result_mapping_table, l.value) = Returned(i)

\* C6 (amended): for every id i of the cached table convert_id_to_label(i)
\* returns the label at i, and query_label_id of that label returns the smallest
\* id that carries the same label; it returns i exactly when no smaller id
\* carries the label of i (so for every i when the labels are distinct).
C6_RoundTripToFirst ==
    (client = Det /\ constructed) =>
        \A i \in DOMAIN det_result_mapping_table :
            LET table == det_result_mapping_table
                l == ConvertIdToLabel(table, i)
                q == QueryLabelId(table, l.value)
            IN  /\ l.outcome = "return"
                /\ l.value = table[i]
                /\ q.outcome = "return"
                /\ q.value \in DOMAIN table
                /\ table[q.value] = table[i]
                /\ \A j \in DOMAIN table : table[j] = table[i] => q.value <= j
                /\ (q.value = i) <=> (\A j \in DOMAIN table : j < i => table[j] # table[i])

\* a table with one label at two indices, queried for that label
C6_Witness ==
    /\ client = Det /\ constructed
    /\ DOMAIN det_result_mapping_table = {0, 1}
    /\ det_result_mapping_table[0] = det_result_mapping_table[1]
    /\ last.method = "query_label_id"
    /\ last.args = <<det_result_mapping_table[1]>>
    /\ last.outcome = "return"
    /\ last.value = 0

\* the methods that wrap a remote operation
CallMethods ==
    {"get_result_mapping_table", "get_result_by_image_id", "connect_image_loader",
     "disconnect_image_loader", "get_image_buffer_by_image_id", "get_image_by_image_id",
     "get_image_size_by_image_id", "inform_previous_service_info",
     "inform_current_service_info", "start", "stop"}

\* C7: every invocation of a public call method of any of the five clients
\* invokes exactly one remote operation.
C7_ExactlyOneRemoteOperation ==
    last.method \in CallMethods => Len(last.requests) = 1

\* C8: on a reply whose code is not 200, every remote-calling method of
\* ImageHarmonyClient, TargetDetectionClient and TargetTrackingClient raises an
\* error whose message contains the remote message, the ip and the port, and
\* returns no value.
C8_NonOkReplyRaises ==
    (client \in {IH, Det, Trk} /\ ReplyNotOk(last)) =>
        /\ last.outcome = "raise"
        /\ last.value = None
        /\ last.error.kind = "Exception"
        /\ HasLine(last, <<last.resp.message>>)
        /\ HasLine(last, <<"   ip:   ", ip>>)
        /\ HasLine(last, <<"   port: ", port>>)

\* a failing reply to get_image_by_image_id of the image harmony client
C8_Witness ==
    /\ client = IH /\ last.method = "get_image_by_image_id"
    /\ ReplyNotOk(last) /\ last.resp.message = "busy"
    /\ last.outcome = "raise"

\* the last item of the response args with this key
LastWithKey(items, k) ==
    LET at == {i \in 1..Len(items) : items[i].key = k}
    IN  items[CHOOSE i \in at : \A j \in at : j <= i]

\* C9: every ServiceCoordinatorClient method returns True (inform_current:
\* (True, output args)) exactly when the reply code is 200, and False
\* ((False, {})) without raising on another code or on a gRPC error.
C9_CoordinatorReportsSuccess ==
    (client = SC /\ last.method \in {"inform_previous_service_info",
                                     "inform_current_service_info", "start", "stop"}) =>
        /\ last.outcome = "return"
        /\ Len(last.requests) = 1
        /\ IF last.method = "inform_current_service_info"
           THEN /\ last.value[1] = ReplyOk(last)
                /\ ~ReplyOk(last) => last.value[2] = <<>>
                /\ ReplyOk(last) =>
                    /\ DOMAIN last.value[2] =
                          {last.resp.body[i].key : i \in 1..Len(last.resp.body)}
                    /\ \A k \in DOMAIN last.value[2] :
                          last.value[2][k] = LastWithKey(last.resp.body, k).value
           ELSE last.value = ReplyOk(last)

\* start answered by a failing reply returns False
C9_Witness ==
    /\ client = SC /\ last.method = "start"
    /\ ReplyNotOk(last)
    /\ last.outcome = "return"
    /\ last.value = FALSE

\* the failures of ImageRendererClient.get_image_by_image_id: no code-200 reply,
\* an empty buffer, or a buffer imdecode cannot decode
IR_Failure(c) ==
    \/ ~ReplyOk(c)
    \/ c.resp.body.buffer = EmptyBuffer
    \/ \A dec \in ImDecode(c.resp.body.buffer) : dec.kind # "image"

\* C10: ImageRendererClient.get_image_by_image_id never raises and returns
\* (0, empty array) for every failure outcome.
C10_RendererFailureIsZeroEmpty ==
    (client = IR /\ last.method = "get_image_by_image_id" /\ IR_Failure(last)) =>
        /\ last.outcome = "return"
        /\ last.value = <<0, EmptyArray>>

\* C11: ImageRendererClient.get_image_size_by_image_id sends one
\* getImageByImageId request that carries the task id, the image id and
\* noImageBuffer = True, and on a code-200 reply returns the (width, height) of
\* that reply.
C11_RendererSizeFromReply ==
    (client = IR /\ last.method = "get_image_size_by_image_id") =>
        /\ Len(last.requests) = 1
        /\ last.requests[1].op = "getImageByImageId"
        /\ last.requests[1].taskId = last.args[1]
        /\ last.requests[1].imageId = last.args[2]
        /\ last.requests[1].noImageBuffer = TRUE
        /\ ReplyOk(last) => last.value = <<last.resp.body.width, last.resp.body.height>>

\* the (format, params) pair of the call, its last argument
OptionsOf(c) == c.args[Len(c.args)]

\* C12: when format and params are omitted, every image-buffer request built by
\* ImageHarmonyClient and ImageRendererClient carries format '.jpg' and params
\* [IMWRITE_JPEG_QUALITY, 80], in every call of any sequence of calls: the
\* shared default lists are never changed.
C12_DefaultsKept ==
    /\ \A m \in DOMAIN default_params : default_params[m] = <<IMWRITE_JPEG_QUALITY, 80>>
    /\ (/\ client \in {IH, IR}
        /\ last.method \in {"get_image_buffer_by_image_id", "get_image_by_image_id"}
        /\ ~OptionsOf(last).given) =>
            /\ Len(last.requests) = 1
            /\ last.requests[1].noImageBuffer = FALSE
            /\ last.requests[1].format = ".jpg"
            /\ last.requests[1].params = <<IMWRITE_JPEG_QUALITY, 80>>

\* a call of the renderer's get_image_by_image_id that left both out
C12_Witness ==
    /\ client = IR /\ last.method = "get_image_by_image_id"
    /\ ~OptionsOf(last).given
    /\ ReplyOk(last)
    /\ last.requests[1].params = <<1, 80>>

\* C13: the connection id of an ImageHarmonyClient is 0 after construction; a
\* connect_image_loader answered with code 200 sets it to the reply's
\* connectionId; a disconnect_image_loader answered with code 200 resets it to 0;
\* a connect or disconnect answered with another code or a transport error, and
\* every other call, leaves it unchanged.  Every getImageByImageId request carries
\* the connection id held when the call is made.
C13_ConnectionIdProtocol ==
    /\ (client = IH /\ last = NoCall) => ih_connection_id = 0
    /\ [][client = IH =>
            /\ (last'.method = "connect_image_loader" /\ ReplyOk(last')) =>
                    ih_connection_id' = last'.resp.body.connectionId
            /\ (last'.method = "disconnect_image_loader" /\ ReplyOk(last')) =>
                    ih_connection_id' = 0
            /\ ~ReplyOk(last') => ih_connection_id' = ih_connection_id
            /\ last'.method \notin {"connect_image_loader", "disconnect_image_loader"} =>
                    ih_connection_id' = ih_connection_id
            /\ \A i \in 1..Len(last'.requests) :
                    last'.requests[i].op = "getImageByImageId" =>
                        last'.requests[i].connectionId = ih_connection_id]_vars

\* a connection id handed out by connect is carried by a later image request
C13_Witness ==
    /\ client = IH
    /\ ih_connection_id = 2
    /\ last.method = "get_image_size_by_image_id"
    /\ last.requests[1].connectionId = 2

\* the text the except branch of the method formats in front of the gRPC error
IH_GrpcErrorText(method) ==
    CASE method = "connect_image_loader" -> "gRPC error in connect_image_loader: "
      [] method = "disconnect_image_loader" -> "gRPC error in disconnect_image_loader: "
      [] method = "get_image_buffer_by_image_id" ->
            "gRPC error in get_image_buffer_by_image_id: "
      [] method = "get_image_size_by_image_id" ->
            "gRPC error in get_image_size_by_image_id: "

\* C14: on a grpc.RpcError during the remote call, connect_image_loader,
\* disconnect_image_loader, get_image_buffer_by_image_id and
\* get_image_size_by_image_id of ImageHarmonyClient raise an error whose message
\* names the failing method and includes the gRPC error's description, chained
\* from the gRPC error.
C14_HarmonyRpcErrorWrapped ==
    (/\ client = IH
     /\ last.method \in {"connect_image_loader", "disconnect_image_loader",
                         "get_image_buffer_by_image_id", "get_image_size_by_image_id"}
     /\ last.resp.kind = "rpcerror") =>
        /\ last.outcome = "raise"
        /\ HasLine(last, <<IH_GrpcErrorText(last.method), last.resp.message>>)
        /\ last.error.cause = "RpcError"

\* one step of a filter seen as a mathematical set: the call recorded in c took
\* the set from before to after
FilterStep(c, before, after) ==
    /\ c.method = "filter.add" =>
            c.outcome = "return" /\ after = before \cup {c.args[1]}
    /\ c.method = "filter.remove" =>
            c.outcome = "return" /\ after = before \ {c.args[1]}
    /\ c.method = "filter.clear" => c.outcome = "return" /\ after = {}
    /\ c.method = "filter.check" =>
            /\ c.outcome = "return"
            /\ c.value = (c.args[1] \in before)
            /\ after = before

\* C15: both Filter classes behave as a plain mathematical set: add is the
\* union with the label (so it is idempotent), remove is the set difference
\* and leaves the set alone without raising when the label is absent, clear
\* gives the empty set, and check(l) is true exactly when l is in the set built
\* by the operations so far.
C15_FilterIsASet ==
    [][/\ client = Det => FilterStep(last', det_filter, det_filter')
       /\ client = Trk => FilterStep(last', trk_filter, trk_filter')]_vars

\* C15 witness: the detection filter after the removal of a label, another label
\* still being accepted
C15_Witness ==
    /\ client = Det
    /\ last.method = "filter.remove"
    /\ last.outcome = "return"
    /\ last.args[1] \notin det_filter
    /\ det_filter # {}

\* the call recorded in c is a disconnect_image_loader that sent n requests
Disconnected(c, n) == c.method = "disconnect_image_loader" /\ Len(c.requests) = n

\* C16 as stated: of two consecutive disconnect_image_loader calls made while
\* connected (the first one sends a disconnectImageLoader request, so the
\* connection id stems from a successful connect), the second sends no request,
\* whatever the first was answered.
C16_SecondDisconnectSilent ==
    [][(client = IH /\ Disconnected(last, 1) /\ last'.method = "disconnect_image_loader")
            => Disconnected(last', 0)]_vars

\* C16 (amended): with connection id 0 disconnect_image_loader sends no request,
\* raises nothing and leaves the client state unchanged; with another id it
\* sends exactly one disconnectImageLoader request carrying that id.  The
\* disconnect that follows a disconnect answered with code 200 sends nothing;
\* the one that follows a failed disconnect (another code, or a grpc.RpcError)
\* sends the request again, the connection id having been kept.
C16_DisconnectIdempotentAfterSuccess ==
    [][(client = IH /\ last'.method = "disconnect_image_loader") =>
        /\ ih_connection_id = 0 =>
            /\ Disconnected(last', 0)
            /\ last'.outcome = "return"
            /\ ih_connection_id' = 0
        /\ ih_connection_id # 0 =>
            /\ Disconnected(last', 1)
            /\ last'.requests[1].op = "disconnectImageLoader"
            /\ last'.requests[1].connectionId = ih_connection_id
        /\ (Disconnected(last, 1) /\ ReplyOk(last)) => Disconnected(last', 0)
        /\ (Disconnected(last, 1) /\ ~ReplyOk(last)) =>
            /\ Disconnected(last', 1)
            /\ last'.requests[1].connectionId = last.requests[1].connectionId]_vars

\* C16 witness: a disconnect that found connection id 0 and sent nothing
C16_Witness ==
    /\ client = IH
    /\ Disconnected(last, 0)
    /\ last.outcome = "return"
    /\ ih_connection_id = 0

=============================================================================
